---- MODULE Spec2Model ----
(***************************************************************************)
(* The agent control loop of llm_agents (src/src/llm_agents/agent.py) and  *)
(* its text-protocol parser.                                               *)
(*                                                                         *)
(* A Python str is a sequence of one-character strings, so that `in`,      *)
(* split, strip and the regular expression of Agent._parse work on         *)
(* characters as they do in the code.                                      *)
(***************************************************************************)
EXTENDS Integers, Sequences, FiniteSets, TLC

VARIABLES
    scn,                 \* which scenario is explored (set by Init, never changed)
    script,              \* the replies given so far ("eq" scenario: both calls get them)
                         \* kept in the "eq", "copies", "loop" and "fail" scenarios
    tools,               \* Agent.tools of each Agent instance
    agent_max_loops,     \* Agent.max_loops of each Agent instance
    thinking,            \* Agent.thinking of each Agent instance
    agent,               \* the Agent instance each call is made on
    mode,                \* "run" or "run_async", per call
    question,            \* argument question of each call
    max_iterations,      \* argument max_iterations of each call
    pc,                  \* position of each call
    max_loops,           \* local max_loops
    num_loops,           \* local num_loops
    prompt,              \* local prompt
    previous_responses,  \* local previous_responses
    cur,                 \* locals generated, tool, tool_input, thinking_step
    result,              \* value returned or error raised by the call
    calls,               \* history: the model and tool calls issued by the call
    own,                 \* history: the steps appended by the call itself
    today,               \* what datetime.date.today() returns now
    sys_stdout,          \* sys.stdout of the process
    repl_pc,             \* position of each thread inside PythonREPL.run
    old_stdout           \* local old_stdout of each thread inside PythonREPL.run

config == <<scn, tools, agent_max_loops, agent, mode, question, max_iterations>>

vars == <<scn, script, tools, agent_max_loops, thinking, agent, mode, question,
          max_iterations, pc, max_loops, num_loops, prompt, previous_responses,
          cur, result, calls, own, today, sys_stdout, repl_pc, old_stdout>>

\* what a call of Agent.run or Agent.run_async has no assignment to
outside == <<today, sys_stdout, repl_pc, old_stdout>>

-----------------------------------------------------------------------------
(* Python str primitives *)

Min(S) == CHOOSE x \in S : \A y \in S : x <= y
Max(S) == CHOOSE x \in S : \A y \in S : x >= y

RECURSIVE Concat(_)
Concat(ss) == IF ss = <<>> THEN <<>> ELSE Head(ss) \o Concat(Tail(ss))

\* s[i:] starts with p (i is 1-based)
StartsAt(s, p, i) ==
    /\ i >= 1
    /\ i + Len(p) - 1 <= Len(s)
    /\ \A k \in 1..Len(p) : s[i + k - 1] = p[k]

\* Python `p in s`
contains(s, p) == \E i \in 1..(Len(s) + 1) : StartsAt(s, p, i)

\* str.find: the lowest index >= from where p occurs, 0 when there is none
find(s, p, from) ==
    LET hits == {i \in from..(Len(s) + 1) : StartsAt(s, p, i)}
    IN  IF hits = {} THEN 0 ELSE Min(hits)

\* str.split(sep): cut at the occurrences of sep found scanning left to right
RECURSIVE split(_, _)
split(s, sep) ==
    LET i == find(s, sep, 1)
    IN  IF i = 0 THEN <<s>>
        ELSE <<SubSeq(s, 1, i - 1)>> \o split(SubSeq(s, i + Len(sep), Len(s)), sep)

\* number of characters of cs at s[q:] (q is 1-based), as a greedy class* takes them
RunLen(s, q, cs) ==
    Max({n \in 0..(IF q > Len(s) THEN 0 ELSE Len(s) - q + 1) :
            \A k \in 0..(n - 1) : s[q + k] \in cs})

TrailLen(s, cs) ==
    Max({n \in 0..Len(s) : \A k \in 0..(n - 1) : s[Len(s) - k] \in cs})

\* str.strip(chars): every leading and every trailing character of chars goes
strip_chars(s, cs) ==
    LET a == RunLen(s, 1, cs)
    IN  IF a = Len(s) THEN <<>> ELSE SubSeq(s, a + 1, Len(s) - TrailLen(s, cs))

\* what str.strip() and the regex class \s take as whitespace
WHITESPACE == {" ", "\t", "\n", "\r", "\f"}

strip(s) == strip_chars(s, WHITESPACE)

-----------------------------------------------------------------------------
(* Agent._parse *)

FINAL_ANSWER_TOKEN == <<"F","i","n","a","l"," ","A","n","s","w","e","r",":">>
OBSERVATION_TOKEN == <<"O","b","s","e","r","v","a","t","i","o","n",":">>
THOUGHT_TOKEN == <<"T","h","o","u","g","h","t",":">>

\* the magic tool name 'Final Answer'
FinalAnswerTool == <<"F","i","n","a","l"," ","A","n","s","w","e","r">>

\* the two literals of the regex r"Action: [\[]?(.*?)[\]]?[\n]*Action Input:[\s]*(.*)"
ActionLiteral == <<"A","c","t","i","o","n",":"," ">>
ActionInputLiteral == <<"A","c","t","i","o","n"," ","I","n","p","u","t",":">>

NoMatch == [matched |-> FALSE, group1 |-> <<>>, group2 |-> <<>>]

\* [\n]*Action Input: at s[q:], the greedy [\n]* giving back newlines until the
\* literal fits; the index after the literal, 0 when it does not match
NewlinesThenLiteral(s, q) ==
    LET n == RunLen(s, q, {"\n"})
        ks == {k \in 0..n : StartsAt(s, ActionInputLiteral, q + k)}
    IN  IF ks = {} THEN 0 ELSE q + Max(ks) + Len(ActionInputLiteral)

\* [\]]?[\n]*Action Input: at s[q:], the greedy [\]]? tried with the bracket first
TailEnd(s, q) ==
    LET withClose == IF q <= Len(s) /\ s[q] = "]"
                     THEN NewlinesThenLiteral(s, q + 1) ELSE 0
    IN  IF withClose # 0 THEN withClose ELSE NewlinesThenLiteral(s, q)

\* A faulty variant of LazyFrom: (.*) taken greedily, the longest name.
LazyFrom_greedy(s, p) ==
    LET Captured(L, e) ==
            [matched |-> TRUE,
             group1 |-> SubSeq(s, p, p + L - 1),
             group2 |-> SubSeq(s, e + RunLen(s, e, WHITESPACE), Len(s))]
        Longest(Ls) ==
            IF Ls = {} THEN NoMatch
            ELSE Captured(Max(Ls), TailEnd(s, p + Max(Ls)))
    IN  Longest({L \in 0..(Len(s) - p + 1) : TailEnd(s, p + L) # 0})

\* (.*?) at s[p:], lazy: the shortest capture after which the rest matches;
\* then [\s]* and (.*), both greedy, take all that follows
LazyFrom(s, p) ==
    LET Captured(L, e) ==
            [matched |-> TRUE,
             group1 |-> SubSeq(s, p, p + L - 1),
             group2 |-> SubSeq(s, e + RunLen(s, e, WHITESPACE), Len(s))]
        Shortest(Ls) ==
            IF Ls = {} THEN NoMatch
            ELSE Captured(Min(Ls), TailEnd(s, p + Min(Ls)))
    IN  Shortest({L \in 0..(Len(s) - p + 1) : TailEnd(s, p + L) # 0})

\* the regex tried at index i: the greedy [\[]? takes the bracket first
MatchAt(s, i) ==
    IF ~StartsAt(s, ActionLiteral, i) THEN NoMatch
    ELSE LET p == i + Len(ActionLiteral)
             withOpen == IF p <= Len(s) /\ s[p] = "[" THEN LazyFrom(s, p + 1)
                         ELSE NoMatch
         IN  IF withOpen.matched THEN withOpen ELSE LazyFrom(s, p)

\* re.search(regex, s, re.DOTALL): the match at the lowest index that has one
re_search(s) ==
    LET Leftmost(starts) == IF starts = {} THEN NoMatch ELSE MatchAt(s, Min(starts))
    IN  Leftmost({i \in 1..Len(s) : MatchAt(s, i).matched})

Last(seq) == seq[Len(seq)]

\* A faulty variant of FinalAnswerText: the text after the first marker.
FinalAnswerText_first(generated) == strip(split(generated, FINAL_ANSWER_TOKEN)[2])

\* A faulty variant of ToolInputText: all whitespace stripped, not only spaces.
ToolInputText_whitespace(group2) == strip_chars(strip(group2), {"\""})

\* the payload of a Final Answer output
FinalAnswerText(generated) == strip(Last(split(generated, FINAL_ANSWER_TOKEN)))

\* the tool input of a matched action
ToolInputText(group2) == strip_chars(strip_chars(group2, {" "}), {"\""})

\* the tool name of a matched action
ToolNameText(group1) == strip(group1)

\* the message of the ValueError of line 177: a fixed text, then the raw output
\* between two grave accents (one token each here)
ParseErrorMessage(generated) ==
    <<"Output of LLM is not parsable for next tool use: ", "<grave>">>
        \o generated \o <<"<grave>">>

\* A faulty variant of _parse: the action pattern is tried before the marker.
_parse_action_first(generated) ==
    LET match == re_search(generated)
    IN  IF match.matched
        THEN [raised |-> FALSE, tool |-> ToolNameText(match.group1),
              tool_input |-> ToolInputText(match.group2), message |-> <<>>]
        ELSE IF contains(generated, FINAL_ANSWER_TOKEN)
        THEN [raised |-> FALSE, tool |-> FinalAnswerTool,
              tool_input |-> FinalAnswerText(generated), message |-> <<>>]
        ELSE [raised |-> TRUE, tool |-> <<>>, tool_input |-> <<>>,
              message |-> ParseErrorMessage(generated)]

\* A faulty variant of _parse: an output the regex does not match is passed on
\* as a tool invocation with an empty name instead of raising.
_parse_lenient(generated) ==
    IF contains(generated, FINAL_ANSWER_TOKEN)
    THEN [raised |-> FALSE, tool |-> FinalAnswerTool,
          tool_input |-> FinalAnswerText(generated), message |-> <<>>]
    ELSE LET match == re_search(generated)
         IN  [raised |-> FALSE, tool |-> ToolNameText(match.group1),
              tool_input |-> ToolInputText(match.group2), message |-> <<>>]

_parse(generated) ==
    IF contains(generated, FINAL_ANSWER_TOKEN)
    THEN [raised |-> FALSE, tool |-> FinalAnswerTool,
          tool_input |-> FinalAnswerText(generated), message |-> <<>>]
    ELSE LET match == re_search(generated)
         IN  IF ~match.matched
             THEN [raised |-> TRUE, tool |-> <<>>, tool_input |-> <<>>,
                   message |-> ParseErrorMessage(generated)]
             ELSE [raised |-> FALSE, tool |-> ToolNameText(match.group1),
                   tool_input |-> ToolInputText(match.group2), message |-> <<>>]

-----------------------------------------------------------------------------
(* Prompt rendering: PROMPT_TEMPLATE and str.format *)

\* The template text between two replacement fields is one opaque token (it holds
\* no brace); a replacement field is "{", the field name as one token, "}".
PROMPT_TEMPLATE ==
    <<"Today is ", "{", "today", "}",
      " and you can use tools to get new information. Answer the question as best as you can using the following tools: \n\n",
      "{", "tool_description", "}",
      "\n\nUse the following format:\n\nQuestion: the input question you must answer\nThought: comment on what you want to do next\nAction: the action to take, exactly one element of [",
      "{", "tool_names", "}",
      "]\nAction Input: the input to the action\nObservation: the result of the action\n... (this Thought/Action/Action Input/Observation repeats N times, use it until you are sure of the answer)\nThought: I now know the final answer\nFinal Answer: your final answer to the original input question\n\nBegin!\n\nQuestion: ",
      "{", "question", "}", "\n", "Thought: ", "{", "previous_responses", "}", "\n">>

\* str.format(**kwargs) over s[i:]: "{{" and "}}" are literal braces, "{name}" is
\* replaced by kwargs[name], an unknown name raises KeyError, a brace that is
\* neither doubled nor part of a field raises ValueError
RECURSIVE format_from(_, _, _)
format_from(s, i, kwargs) ==
    IF i > Len(s) THEN [raised |-> FALSE, exc |-> "", value |-> <<>>]
    ELSE IF s[i] = "{" /\ i < Len(s) /\ s[i + 1] = "{"
    THEN LET rest == format_from(s, i + 2, kwargs)
         IN  [rest EXCEPT !.value = <<"{">> \o @]
    ELSE IF s[i] = "}" /\ i < Len(s) /\ s[i + 1] = "}"
    THEN LET rest == format_from(s, i + 2, kwargs)
         IN  [rest EXCEPT !.value = <<"}">> \o @]
    ELSE IF s[i] = "}"
    THEN [raised |-> TRUE, exc |-> "ValueError", value |-> <<>>]
    ELSE IF s[i] = "{"
    THEN IF i + 2 > Len(s) \/ s[i + 2] # "}" \/ s[i + 1] \in {"{", "}"}
         THEN [raised |-> TRUE, exc |-> "ValueError", value |-> <<>>]
         ELSE IF s[i + 1] \notin DOMAIN kwargs
         THEN [raised |-> TRUE, exc |-> "KeyError", value |-> <<>>]
         ELSE LET rest == format_from(s, i + 3, kwargs)
              IN  [rest EXCEPT !.value = kwargs[s[i + 1]] \o @]
    ELSE LET rest == format_from(s, i + 1, kwargs)
         IN  [rest EXCEPT !.value = <<s[i]>> \o @]

format(s, kwargs) == format_from(s, 1, kwargs)

\* A faulty variant of join: only the last item is rendered.
join_last_only(sep, items) ==
    IF items = <<>> THEN <<>> ELSE items[Len(items)]

\* sep.join(items)
RECURSIVE join(_, _)
join(sep, items) ==
    IF items = <<>> THEN <<>>
    ELSE IF Len(items) = 1 THEN items[1]
    ELSE items[1] \o sep \o join(sep, Tail(items))

\* the value of datetime.date.today(), one token
Days == <<"<day 1>", "<day 2>">>

\* datetime.date.today()
Today == <<today>>

tool_description(ts) ==
    join(<<"\n">>, [k \in 1..Len(ts) |-> ts[k].name \o <<":", " ">> \o ts[k].description])

\* A faulty variant of tool_names: the names in reverse list order.
tool_names_reversed(ts) ==
    join(<<",">>, [k \in 1..Len(ts) |-> ts[Len(ts) + 1 - k].name])

tool_names(ts) == join(<<",">>, [k \in 1..Len(ts) |-> ts[k].name])

\* A faulty variant of tool_by_names: names are compared without their case.
tool_by_names_casefold(ts) ==
    LET fold(nm) == IF nm = <<"A">> THEN <<"a">> ELSE nm
    IN  [nm \in {ts[k].name : k \in 1..Len(ts)} |->
            Max({k \in 1..Len(ts) : fold(ts[k].name) = fold(nm)})]

\* tool_by_names: of two tools with one name the dict keeps the later one
tool_by_names(ts) ==
    [nm \in {ts[k].name : k \in 1..Len(ts)} |->
        Max({k \in 1..Len(ts) : ts[k].name = nm})]

\* the first format of run, which leaves the previous_responses field in place
first_prompt(ts, q) ==
    format(PROMPT_TEMPLATE,
           [today |-> Today, tool_description |-> tool_description(ts),
            tool_names |-> tool_names(ts), question |-> q,
            previous_responses |-> <<"{", "previous_responses", "}">>])

\* A faulty variant of with_previous_responses: the date is read again at
\* every rendering.
with_previous_responses_redated(p, text) ==
    LET out == format(p, [previous_responses |-> text])
    IN  IF out.raised THEN out
        ELSE [out EXCEPT !.value =
                 [k \in 1..Len(out.value) |->
                     IF \E d \in 1..Len(Days) : out.value[k] = Days[d]
                     THEN today ELSE out.value[k]]]

\* prompt.format(previous_responses=...)
with_previous_responses(p, text) ==
    format(p, [previous_responses |-> text])

-----------------------------------------------------------------------------
(* The model and the tools, as the loop sees them *)

Runs == {1, 2}
Agents == {1, 2}

\* a key a dict does not hold
Absent == <<"<absent>">>

NoStep == [step |-> 0, thought |-> <<>>, tool |-> <<>>, tool_input |-> <<>>,
           result |-> Absent, observation |-> Absent]

NoLocals == [generated |-> <<>>, tool |-> <<>>, tool_input |-> <<>>,
             thinking_step |-> NoStep]

NoResult == [kind |-> "none", exc |-> "", value |-> <<>>]
Returned(text) == [kind |-> "return", exc |-> "", value |-> text]
Raised(exc, message) == [kind |-> "raise", exc |-> exc, value |-> message]

stop_pattern == <<"\nObservation:", "\n\tObservation:">>

\* ChatLLM.generate: one chat completion request with the prompt and the stop list
generate(text, stop) == [op |-> "create", tool |-> 0, arg |-> text, stop |-> stop]

\* A faulty variant of generate_async: the stop list is not passed on.
generate_async_no_stop(text, stop) ==
    [op |-> "create", tool |-> 0, arg |-> text, stop |-> <<>>]

\* ChatLLM.generate_async: the same request through the async client
generate_async(text, stop) == [op |-> "create", tool |-> 0, arg |-> text, stop |-> stop]

\* ToolInterface.use of the k-th tool of the catalog
use(k, input_text) == [op |-> "use", tool |-> k, arg |-> input_text, stop |-> <<>>]

\* ToolInterface.use_async: by default it calls the synchronous version
use_async(k, input_text) == use(k, input_text)

FallbackAnswer ==
    <<"I couldn't find a definitive answer within the allowed number of steps.">>

UnknownToolMessage(tool) == <<"Unknown tool: ">> \o tool

\* A faulty variant of WithObservation: no space after the Observation marker.
WithObservation_no_space(generated, tool_result) ==
    generated \o <<"\n">> \o OBSERVATION_TOKEN \o tool_result
        \o <<"\n">> \o THOUGHT_TOKEN

\* the text put on the transcript after a tool call (lines 96 and 147)
WithObservation(generated, tool_result) ==
    generated \o <<"\n">> \o OBSERVATION_TOKEN \o <<" ">> \o tool_result
        \o <<"\n">> \o THOUGHT_TOKEN

\* decide_next_action, given what llm.generate returned
decide_next_action(generated) == _parse(generated)

\* decide_next_action_async, given what llm.generate_async returned
decide_next_action_async(generated) == _parse(generated)

\* A faulty variant of choose_max_loops: a budget of 0 is taken for None.
choose_max_loops_falsy(given_budget, self_max_loops) ==
    IF given_budget.given /\ given_budget.n # 0 THEN given_budget.n ELSE self_max_loops

\* max_iterations if max_iterations is not None else self.max_loops (lines 64, 115)
choose_max_loops(given_budget, self_max_loops) ==
    IF given_budget.given THEN given_budget.n ELSE self_max_loops

\* A faulty variant of the loop test: one iteration too many.
while_cond_inclusive(n, ml) == n <= ml

\* A faulty variant of the test of line 87: the marker instead of the tool name.
is_final_answer_marker(tool) == tool = FINAL_ANSWER_TOKEN

\* the loop test of lines 74 and 125
while_cond(n, ml) == n < ml

\* the test of lines 87 and 138
is_final_answer(tool) == tool = FinalAnswerTool

\* A faulty variant of with_result: the answer is not put on the step.
with_result_missing(thinking_step, tool_input) == thinking_step

\* thinking_step["result"] = tool_input (lines 88 and 139)
with_result(thinking_step, tool_input) == [thinking_step EXCEPT !.result = tool_input]

\* A faulty variant of reset_thinking: the steps of earlier calls are kept.
reset_thinking_kept(steps) == steps

\* self.thinking = [] (lines 60 and 111)
reset_thinking(steps) == <<>>

\* A faulty variant of thinking_append: the new step is put in front.
thinking_append_front(steps, thinking_step) == <<thinking_step>> \o steps

\* A faulty variant of thinking_append: the list is replaced by the new step.
thinking_append_overwrite(steps, thinking_step) == <<thinking_step>>

\* self.thinking.append(thinking_step) (lines 89, 100, 140 and 151)
thinking_append(steps, thinking_step) == Append(steps, thinking_step)

\* the test of lines 92 and 143
\* A faulty variant of max_loops_field: the budget chosen is stored in the Agent.
max_loops_field_stored(a, budget) == [agent_max_loops EXCEPT ![a] = budget]

\* self.max_loops after the budget of the call is chosen (lines 64, 115): the
\* budget goes to the local max_loops, the field is not assigned
max_loops_field(a, budget) == agent_max_loops

\* what stands for a call of tool.use or tool.use_async that raises
ToolError == <<"<tool error>">>

\* A faulty variant of tool_raises: the error is taken as the text of the tool.
tool_raises_caught(tool_result) == FALSE

\* lines 95 and 146 stand in no try block: an error of the tool leaves the call
tool_raises(tool_result) == tool_result = ToolError

is_unknown_tool(tool, ts) == tool \notin DOMAIN tool_by_names(ts)

Set(f, r, v) == [f EXCEPT ![r] = v]

\* a blocking run occupies the thread: nothing else runs until it ends
\* (in the "seq" scenario the caller makes its calls one after another)
Blocked(r) ==
    \/ \E q \in Runs \ {r} : mode[q] \in {"run", "old_run"} /\ pc[q] \in {"llm", "tool"}
    \/ scn = "seq" /\ \E q \in Runs : q < r /\ pc[q] \notin {"returned", "raised"}

-----------------------------------------------------------------------------
(* What the model and the tools reply *)

ToolA == [name |-> <<"a">>, description |-> <<"<description of a>">>]
ToolC == [name |-> <<"A">>, description |-> <<"<description of A>">>]
Catalogs == {<<ToolA>>, <<ToolA, ToolC>>}

Questions == {<<"q">>, <<"q", "{", "x", "}">>}

\* the marker Action: without the space the regex asks for
ActionNoSpace == <<"A","c","t","i","o","n",":">>

OutFinal == <<"o", "k", "\n">> \o FINAL_ANSWER_TOKEN \o <<" ", "4">>
OutActionA == ActionLiteral \o <<"a", "\n">> \o ActionInputLiteral \o <<" ", "x">>
OutActionC ==
    ActionLiteral \o <<"A", "\n">> \o ActionInputLiteral \o <<" ", "{", "y", "}">>
OutUnknown == ActionLiteral \o <<"b", "\n">> \o ActionInputLiteral \o <<" ", "x">>
OutGarbage == <<"h", "m">>
OutNoSpace == ActionNoSpace \o <<"a", "\n">> \o ActionInputLiteral \o <<" ", "x">>
OutMagic == ActionLiteral \o FinalAnswerTool \o <<"\n">> \o ActionInputLiteral \o <<" ", "4">>

LoopOutputs ==
    {OutFinal, OutActionA, OutActionC, OutUnknown, OutGarbage, OutNoSpace, OutMagic}

ToolResults == {<<"r">>, <<"{", "s", "}">>}

\* Model outputs for the parser: every concatenation of up to MaxPieces pieces,
\* and every action block followed by up to MaxTail characters
MaxPieces == 3
MaxTail == 3

Pieces == {FINAL_ANSWER_TOKEN, ActionLiteral, ActionNoSpace, ActionInputLiteral,
           <<"a">>, <<" ">>, <<"\n">>, <<"\"">>, <<"[">>, <<"]">>}

TailChars == {"a", " ", "\n", "\""}

Blocks ==
    {ActionLiteral \o <<"a", "\n">> \o ActionInputLiteral,
     ActionLiteral \o <<"[", "a", "]", "\n">> \o ActionInputLiteral \o <<" ">>,
     ActionLiteral \o <<"a", "]", "]", "\n", "\n">> \o ActionInputLiteral \o <<"\n">>,
     ActionNoSpace \o <<"a", "\n">> \o ActionInputLiteral \o <<" ">>,
     <<"x", "\n">> \o ActionLiteral \o <<" ", "a", " ", "\n">>
         \o ActionInputLiteral \o <<"\t">>,
     ActionLiteral \o <<"a", "\n">> \o ActionInputLiteral \o <<" ", "b", "\n">>
         \o ActionLiteral \o <<"c", "\n">> \o ActionInputLiteral,
     ActionLiteral \o <<"a", "\n">> \o ActionInputLiteral \o <<" ", "x", "\n">>
         \o FINAL_ANSWER_TOKEN,
     FINAL_ANSWER_TOKEN \o <<" ", "4", "\n">> \o ActionLiteral \o <<"a", "\n">>
         \o ActionInputLiteral}

SeqsUpTo(S, n) == UNION {[1..k -> S] : k \in 0..n}

ParseInputs ==
    {Concat(ps) : ps \in SeqsUpTo(Pieces, MaxPieces)}
        \cup {b \o t : b \in Blocks, t \in SeqsUpTo(TailChars, MaxTail)}

\* In the "eq" and "copies" scenarios the k-th call of either run gets the same reply: the first
\* run to make its k-th call draws the reply, the other run reads it.
Replies(r, fresh) ==
    IF scn \in {"eq", "copies"} /\ Len(calls[r]) <= Len(script)
    THEN {script[Len(calls[r])]}
    ELSE fresh

\* The "loop" and "fail" scenarios, with their one call, keep the record too.
Scripted(r, reply) ==
    IF scn \in {"eq", "copies", "loop", "fail"} /\ Len(calls[r]) > Len(script)
    THEN Append(script, reply)
    ELSE script

\* with the default budget the model only asks for tool a or answers
LlmReplies(r) ==
    Replies(r, CASE scn = "parse" -> ParseInputs
                 [] scn = "default" -> {OutActionA, OutFinal}
                 [] OTHER -> LoopOutputs)

\* in the "fail" scenario a tool may raise instead of returning a text
ToolReplies(r) ==
    Replies(r, CASE scn = "default" -> {<<"r">>}
                 [] scn = "fail" -> ToolResults \cup {ToolError}
                 [] OTHER -> ToolResults)

-----------------------------------------------------------------------------
(* Agent.run, lines 57-106 *)

\* lines 74-77, and line 106 when the loop ends: sets pc, num_loops, result, calls
Run_LoopHead(r, n, ml, prevs, pr) ==
    IF while_cond(n, ml)
    THEN LET curr_prompt == with_previous_responses(pr, join(<<"\n">>, prevs))
         IN  /\ num_loops' = Set(num_loops, r, n + 1)
             /\ IF curr_prompt.raised
                THEN /\ pc' = Set(pc, r, "raised")
                     /\ result' = Set(result, r, Raised(curr_prompt.exc, <<>>))
                     /\ calls' = calls
                ELSE /\ pc' = Set(pc, r, "llm")
                     /\ result' = result
                     /\ calls' = Set(calls, r,
                           Append(calls[r], generate(curr_prompt.value, stop_pattern)))
    ELSE /\ num_loops' = Set(num_loops, r, n)
         /\ pc' = Set(pc, r, "returned")
         /\ result' = Set(result, r, Returned(FallbackAnswer))
         /\ calls' = calls

\* lines 57-77: the call up to its first model call
Run_Begin(r) ==
    /\ pc[r] = "idle"
    /\ mode[r] = "run"
    /\ ~Blocked(r)
    /\ LET a == agent[r]
           ml == choose_max_loops(max_iterations[r], agent_max_loops[a])
           p1 == first_prompt(tools[a], question[r])
           shown == with_previous_responses(p1.value, <<>>)
       IN  /\ thinking' = Set(thinking, a, reset_thinking(thinking[a]))
           /\ agent_max_loops' = max_loops_field(a, ml)
           /\ previous_responses' = Set(previous_responses, r, <<>>)
           /\ max_loops' = Set(max_loops, r, ml)
           /\ prompt' = Set(prompt, r, p1.value)
           /\ IF shown.raised
              THEN /\ pc' = Set(pc, r, "raised")
                   /\ result' = Set(result, r, Raised(shown.exc, <<>>))
                   /\ num_loops' = Set(num_loops, r, 0)
                   /\ calls' = calls
              ELSE Run_LoopHead(r, 0, ml, <<>>, p1.value)
           /\ UNCHANGED <<scn, tools, agent, mode, question, max_iterations>>
           /\ UNCHANGED <<outside, script, cur, own>>

\* lines 79-95: record the step, then answer, fail or call the tool
Run_Dispatch(r, generated, parsed) ==
    LET a == agent[r]
        thinking_step == [step |-> num_loops[r], thought |-> generated,
                          tool |-> parsed.tool, tool_input |-> parsed.tool_input,
                          result |-> Absent, observation |-> Absent]
        final_step == with_result(thinking_step, parsed.tool_input)
    IN  /\ cur' = Set(cur, r, [generated |-> generated, tool |-> parsed.tool,
                               tool_input |-> parsed.tool_input,
                               thinking_step |-> thinking_step])
        /\ IF parsed.raised
           THEN /\ pc' = Set(pc, r, "raised")
                /\ result' = Set(result, r, Raised("ValueError", parsed.message))
                /\ UNCHANGED <<thinking, own, calls>>
           ELSE IF is_final_answer(parsed.tool)
           THEN /\ thinking' = Set(thinking, a, thinking_append(thinking[a], final_step))
                /\ own' = Set(own, r, Append(own[r], final_step))
                /\ pc' = Set(pc, r, "returned")
                /\ result' = Set(result, r, Returned(parsed.tool_input))
                /\ calls' = calls
           ELSE IF is_unknown_tool(parsed.tool, tools[a])
           THEN /\ pc' = Set(pc, r, "raised")
                /\ result' = Set(result, r,
                      Raised("ValueError", UnknownToolMessage(parsed.tool)))
                /\ UNCHANGED <<thinking, own, calls>>
           ELSE /\ pc' = Set(pc, r, "tool")
                /\ calls' = Set(calls, r, Append(calls[r],
                      use(tool_by_names(tools[a])[parsed.tool], parsed.tool_input)))
                /\ UNCHANGED <<thinking, own, result>>

\* lines 77-78: the model has replied
Run_Generated(r) ==
    /\ pc[r] = "llm"
    /\ mode[r] = "run"
    /\ ~Blocked(r)
    /\ \E generated \in LlmReplies(r) :
          /\ script' = Scripted(r, generated)
          /\ Run_Dispatch(r, generated, decide_next_action(generated))
    /\ UNCHANGED <<config, outside, max_loops, num_loops, prompt, previous_responses>>

\* lines 95-103, then the loop head again: the tool has returned
Run_ToolReturned(r) ==
    /\ pc[r] = "tool"
    /\ mode[r] = "run"
    /\ ~Blocked(r)
    /\ \E tool_result \in ToolReplies(r) :
          LET a == agent[r]
              generated == WithObservation(cur[r].generated, tool_result)
              thinking_step == [cur[r].thinking_step EXCEPT !.observation = tool_result]
              prevs == Append(previous_responses[r], generated)
          IN  /\ script' = Scripted(r, tool_result)
              /\ IF tool_raises(tool_result)
                 THEN /\ pc' = Set(pc, r, "raised")
                      /\ result' = Set(result, r, Raised("ToolError", tool_result))
                      /\ UNCHANGED <<thinking, own, cur, previous_responses,
                                     num_loops, calls>>
                 ELSE /\ thinking' = Set(thinking, a,
                            thinking_append(thinking[a], thinking_step))
                      /\ own' = Set(own, r, Append(own[r], thinking_step))
                      /\ cur' = Set(cur, r, [cur[r] EXCEPT !.generated = generated,
                                                !.thinking_step = thinking_step])
                      /\ previous_responses' = Set(previous_responses, r, prevs)
                      /\ Run_LoopHead(r, num_loops[r], max_loops[r], prevs, prompt[r])
    /\ UNCHANGED <<config, outside, max_loops, prompt>>

-----------------------------------------------------------------------------
(* Agent.run_async, lines 108-157 *)

\* lines 125-128, and line 157 when the loop ends: sets pc, num_loops, result, calls
RunAsync_LoopHead(r, n, ml, prevs, pr) ==
    IF while_cond(n, ml)
    THEN LET curr_prompt == with_previous_responses(pr, join(<<"\n">>, prevs))
         IN  /\ num_loops' = Set(num_loops, r, n + 1)
             /\ IF curr_prompt.raised
                THEN /\ pc' = Set(pc, r, "raised")
                     /\ result' = Set(result, r, Raised(curr_prompt.exc, <<>>))
                     /\ calls' = calls
                ELSE /\ pc' = Set(pc, r, "llm")
                     /\ result' = result
                     /\ calls' = Set(calls, r,
                           Append(calls[r], generate_async(curr_prompt.value, stop_pattern)))
    ELSE /\ num_loops' = Set(num_loops, r, n)
         /\ pc' = Set(pc, r, "returned")
         /\ result' = Set(result, r, Returned(FallbackAnswer))
         /\ calls' = calls

\* lines 108-128: the call up to its first model call
RunAsync_Begin(r) ==
    /\ pc[r] = "idle"
    /\ mode[r] = "run_async"
    /\ ~Blocked(r)
    /\ LET a == agent[r]
           ml == choose_max_loops(max_iterations[r], agent_max_loops[a])
           p1 == first_prompt(tools[a], question[r])
           shown == with_previous_responses(p1.value, <<>>)
       IN  /\ thinking' = Set(thinking, a, reset_thinking(thinking[a]))
           /\ agent_max_loops' = max_loops_field(a, ml)
           /\ previous_responses' = Set(previous_responses, r, <<>>)
           /\ max_loops' = Set(max_loops, r, ml)
           /\ prompt' = Set(prompt, r, p1.value)
           /\ IF shown.raised
              THEN /\ pc' = Set(pc, r, "raised")
                   /\ result' = Set(result, r, Raised(shown.exc, <<>>))
                   /\ num_loops' = Set(num_loops, r, 0)
                   /\ calls' = calls
              ELSE RunAsync_LoopHead(r, 0, ml, <<>>, p1.value)
           /\ UNCHANGED <<scn, tools, agent, mode, question, max_iterations>>
           /\ UNCHANGED <<outside, script, cur, own>>

\* lines 130-146: record the step, then answer, fail or call the tool
RunAsync_Dispatch(r, generated, parsed) ==
    LET a == agent[r]
        thinking_step == [step |-> num_loops[r], thought |-> generated,
                          tool |-> parsed.tool, tool_input |-> parsed.tool_input,
                          result |-> Absent, observation |-> Absent]
        final_step == with_result(thinking_step, parsed.tool_input)
    IN  /\ cur' = Set(cur, r, [generated |-> generated, tool |-> parsed.tool,
                               tool_input |-> parsed.tool_input,
                               thinking_step |-> thinking_step])
        /\ IF parsed.raised
           THEN /\ pc' = Set(pc, r, "raised")
                /\ result' = Set(result, r, Raised("ValueError", parsed.message))
                /\ UNCHANGED <<thinking, own, calls>>
           ELSE IF is_final_answer(parsed.tool)
           THEN /\ thinking' = Set(thinking, a, thinking_append(thinking[a], final_step))
                /\ own' = Set(own, r, Append(own[r], final_step))
                /\ pc' = Set(pc, r, "returned")
                /\ result' = Set(result, r, Returned(parsed.tool_input))
                /\ calls' = calls
           ELSE IF is_unknown_tool(parsed.tool, tools[a])
           THEN /\ pc' = Set(pc, r, "raised")
                /\ result' = Set(result, r,
                      Raised("ValueError", UnknownToolMessage(parsed.tool)))
                /\ UNCHANGED <<thinking, own, calls>>
           ELSE /\ pc' = Set(pc, r, "tool")
                /\ calls' = Set(calls, r, Append(calls[r],
                      use_async(tool_by_names(tools[a])[parsed.tool], parsed.tool_input)))
                /\ UNCHANGED <<thinking, own, result>>

\* lines 128-129: the model has replied
RunAsync_Generated(r) ==
    /\ pc[r] = "llm"
    /\ mode[r] = "run_async"
    /\ ~Blocked(r)
    /\ \E generated \in LlmReplies(r) :
          /\ script' = Scripted(r, generated)
          /\ RunAsync_Dispatch(r, generated, decide_next_action_async(generated))
    /\ UNCHANGED <<config, outside, max_loops, num_loops, prompt, previous_responses>>

\* lines 146-154, then the loop head again: the tool has returned
RunAsync_ToolReturned(r) ==
    /\ pc[r] = "tool"
    /\ mode[r] = "run_async"
    /\ ~Blocked(r)
    /\ \E tool_result \in ToolReplies(r) :
          LET a == agent[r]
              generated == WithObservation(cur[r].generated, tool_result)
              thinking_step == [cur[r].thinking_step EXCEPT !.observation = tool_result]
              prevs == Append(previous_responses[r], generated)
          IN  /\ script' = Scripted(r, tool_result)
              /\ IF tool_raises(tool_result)
                 THEN /\ pc' = Set(pc, r, "raised")
                      /\ result' = Set(result, r, Raised("ToolError", tool_result))
                      /\ UNCHANGED <<thinking, own, cur, previous_responses,
                                     num_loops, calls>>
                 ELSE /\ thinking' = Set(thinking, a,
                            thinking_append(thinking[a], thinking_step))
                      /\ own' = Set(own, r, Append(own[r], thinking_step))
                      /\ cur' = Set(cur, r, [cur[r] EXCEPT !.generated = generated,
                                                !.thinking_step = thinking_step])
                      /\ previous_responses' = Set(previous_responses, r, prevs)
                      /\ RunAsync_LoopHead(r, num_loops[r], max_loops[r], prevs, prompt[r])
    /\ UNCHANGED <<config, outside, max_loops, prompt>>

-----------------------------------------------------------------------------
(* Scenarios *)

MaxBudget == 3

NoneGiven == [given |-> FALSE, n |-> 0]
Given(n) == [given |-> TRUE, n |-> n]
Budgets == {NoneGiven} \cup {Given(n) : n \in 0..MaxBudget}

Terminal == {"returned", "raised"}

\* threads that may be inside PythonREPL.run, and the streams sys.stdout may be
MaxReplThreads == 3
Threads == 1..MaxReplThreads
RealStdout == <<"stdout", 0>>
mystdout(t) == <<"StringIO", t>>

\* the locals of calls that have not begun
InitLocals(active) ==
    /\ thinking = [a \in Agents |-> <<>>]
    /\ pc = [r \in Runs |-> IF r \in active THEN "idle" ELSE "absent"]
    /\ max_loops = [r \in Runs |-> 0]
    /\ num_loops = [r \in Runs |-> 0]
    /\ prompt = [r \in Runs |-> <<>>]
    /\ previous_responses = [r \in Runs |-> <<>>]
    /\ cur = [r \in Runs |-> NoLocals]
    /\ result = [r \in Runs |-> NoResult]
    /\ calls = [r \in Runs |-> <<>>]
    /\ today = Days[1]
    /\ sys_stdout = RealStdout
    /\ repl_pc = [t \in Threads |-> IF scn = "repl" THEN "ready" ELSE "absent"]
    /\ old_stdout = [t \in Threads |-> RealStdout]
    /\ own = [r \in Runs |-> <<>>]

\* one call of run or run_async on one Agent
Init ==
    /\ scn = "loop"
    /\ script = <<>>
    /\ \E cat \in Catalogs : tools = [a \in Agents |-> cat]
    /\ \E n \in 0..MaxBudget : agent_max_loops = [a \in Agents |-> n]
    /\ agent = [r \in Runs |-> 1]
    /\ \E m \in {"run", "run_async"} : mode = [r \in Runs |-> m]
    /\ \E q \in Questions : question = [r \in Runs |-> q]
    /\ \E b \in Budgets : max_iterations = [r \in Runs |-> b]
    /\ InitLocals({1})

Next ==
    \E r \in Runs :
        \/ Run_Begin(r)
        \/ Run_Generated(r)
        \/ Run_ToolReturned(r)
        \/ RunAsync_Begin(r)
        \/ RunAsync_Generated(r)
        \/ RunAsync_ToolReturned(r)

Spec == Init /\ [][Next]_vars

\* a call that has begun goes on: the model and the tools reply, the loop resumes
FairSpec == Spec /\ WF_vars(Next)

\* one call with a budget of one iteration, the model output drawn from ParseInputs
InitParse ==
    /\ scn = "parse"
    /\ script = <<>>
    /\ tools = [a \in Agents |-> <<ToolA>>]
    /\ agent_max_loops = [a \in Agents |-> 1]
    /\ agent = [r \in Runs |-> 1]
    /\ \E m \in {"run", "run_async"} : mode = [r \in Runs |-> m]
    /\ question = [r \in Runs |-> <<"q">>]
    /\ max_iterations = [r \in Runs |-> Given(1)]
    /\ InitLocals({1})

SpecParse == InitParse /\ [][Next]_vars

\* run on one Agent and run_async on another one built alike, with the same
\* arguments, the model and the tools replying the same to both
InitEq ==
    /\ scn = "eq"
    /\ script = <<>>
    /\ \E cat \in Catalogs : tools = [a \in Agents |-> cat]
    /\ \E n \in 0..MaxBudget : agent_max_loops = [a \in Agents |-> n]
    /\ agent = [r \in Runs |-> r]
    /\ mode = [r \in Runs |-> IF r = 1 THEN "run" ELSE "run_async"]
    /\ \E q \in Questions : question = [r \in Runs |-> q]
    /\ \E b \in Budgets : max_iterations = [r \in Runs |-> b]
    /\ InitLocals(Runs)

SpecEq == InitEq /\ [][Next]_vars

\* two run_async calls on the same Agent, interleaved at their awaits
MaxConcBudget == 2

InitConc ==
    /\ scn = "conc"
    /\ script = <<>>
    /\ \E cat \in Catalogs : tools = [a \in Agents |-> cat]
    /\ agent_max_loops = [a \in Agents |-> MaxConcBudget]
    /\ agent = [r \in Runs |-> 1]
    /\ mode = [r \in Runs |-> "run_async"]
    /\ question = [r \in Runs |-> <<"q">>]
    /\ \E b \in 0..MaxConcBudget : max_iterations = [r \in Runs |-> Given(b)]
    /\ InitLocals(Runs)

NextConc ==
    \E r \in Runs :
        \/ RunAsync_Begin(r)
        \/ RunAsync_Generated(r)
        \/ RunAsync_ToolReturned(r)

SpecConc == InitConc /\ [][NextConc]_vars

\* Agent.max_loops: int = 15
DefaultMaxLoops == 15

\* one call on an Agent built with the default max_loops
InitDefault ==
    /\ scn = "default"
    /\ script = <<>>
    /\ \E cat \in Catalogs : tools = [a \in Agents |-> cat]
    /\ agent_max_loops = [a \in Agents |-> DefaultMaxLoops]
    /\ agent = [r \in Runs |-> 1]
    /\ \E m \in {"run", "run_async"} : mode = [r \in Runs |-> m]
    /\ question = [r \in Runs |-> <<"q">>]
    /\ \E b \in Budgets : max_iterations = [r \in Runs |-> b]
    /\ InitLocals({1})

SpecDefault == InitDefault /\ [][Next]_vars

\* two calls, each run or run_async, made one after the other on the same Agent
MaxSeqBudget == 2

InitSeq ==
    /\ scn = "seq"
    /\ script = <<>>
    /\ tools = [a \in Agents |-> <<ToolA>>]
    /\ agent_max_loops = [a \in Agents |-> MaxSeqBudget]
    /\ agent = [r \in Runs |-> 1]
    /\ mode \in [Runs -> {"run", "run_async"}]
    /\ question = [r \in Runs |-> <<"q">>]
    /\ \E b \in [Runs -> 0..MaxSeqBudget] : max_iterations = [r \in Runs |-> Given(b[r])]
    /\ InitLocals(Runs)

SpecSeq == InitSeq /\ [][Next]_vars

\* AgentService.run_agent_query, AgentService.run_agent_query_async and
\* AgentManager.run_agent_query: one request, served by a new Agent built from
\* the tool ids of the request
MaxServiceBudget == 2

\* the tool classes the service knows, by id
available_tools == [python_repl |-> ToolA, hacker_news |-> ToolC]

ToolIds == {"python_repl", "hacker_news"}

\* the ids a request may carry: known ones and one the service does not know
RequestIds == ToolIds \cup {"nope"}

MaxToolIds == 2

\* tools or list(self.available_tools.keys())
tool_ids_of(requested) ==
    IF requested = <<>> THEN <<"python_repl", "hacker_news">> ELSE requested

\* the loop building agent_tools: one new tool per known id, in request order
agent_tools(requested) ==
    LET ids == SelectSeq(tool_ids_of(requested), LAMBDA id : id \in ToolIds)
    IN  [k \in 1..Len(ids) |-> available_tools[ids[k]]]

Endpoints ==
    {"AgentService.run_agent_query", "AgentService.run_agent_query_async",
     "AgentManager.run_agent_query"}

\* the services set agent.max_loops = max_iterations; the manager leaves the
\* default and passes max_iterations to run
service_max_loops(e, n) ==
    IF e = "AgentManager.run_agent_query" THEN DefaultMaxLoops ELSE n

service_max_iterations(e, n) ==
    IF e = "AgentManager.run_agent_query" THEN Given(n) ELSE NoneGiven

service_mode(e) ==
    IF e = "AgentService.run_agent_query_async" THEN "run_async" ELSE "run"

InitService ==
    /\ scn = "service"
    /\ script = <<>>
    /\ \E requested \in SeqsUpTo(RequestIds, MaxToolIds) :
          tools = [a \in Agents |-> agent_tools(requested)]
    /\ \E e \in Endpoints, n \in 0..MaxServiceBudget :
          /\ agent_max_loops = [a \in Agents |-> service_max_loops(e, n)]
          /\ mode = [r \in Runs |-> service_mode(e)]
          /\ max_iterations = [r \in Runs |-> service_max_iterations(e, n)]
    /\ agent = [r \in Runs |-> 1]
    /\ question = [r \in Runs |-> <<"q">>]
    /\ InitLocals({1})

\* the function that serves the request of call r
endpoint(r) ==
    IF max_iterations[r].given THEN "AgentManager.run_agent_query"
    ELSE IF mode[r] = "run" THEN "AgentService.run_agent_query"
    ELSE "AgentService.run_agent_query_async"

\* the response built once the Agent has returned
response(r) ==
    IF endpoint(r) = "AgentService.run_agent_query"
    THEN [result |-> result[r].value,
          thinking |-> <<[step |-> 1, result |-> result[r].value]>>,
          iterations |-> 1]
    ELSE [result |-> result[r].value,
          thinking |-> thinking[agent[r]],
          iterations |-> Len(thinking[agent[r]])]

SpecService == InitService /\ [][Next]_vars

\* one call during which the day may change
MaxClockBudget == 2

\* midnight passes: datetime.date.today() returns the next day from now on
Midnight ==
    /\ today = Days[1]
    /\ today' = Days[2]
    /\ UNCHANGED <<config, script, thinking, pc, max_loops, num_loops, prompt,
                   previous_responses, cur, result, calls, own>>
    /\ UNCHANGED <<sys_stdout, repl_pc, old_stdout>>

InitClock ==
    /\ scn = "clock"
    /\ script = <<>>
    /\ \E cat \in Catalogs : tools = [a \in Agents |-> cat]
    /\ agent_max_loops = [a \in Agents |-> MaxClockBudget]
    /\ agent = [r \in Runs |-> 1]
    /\ \E m \in {"run", "run_async"} : mode = [r \in Runs |-> m]
    /\ question = [r \in Runs |-> <<"q">>]
    /\ max_iterations = [r \in Runs |-> NoneGiven]
    /\ InitLocals({1})

NextClock == Next \/ Midnight

SpecClock == InitClock /\ [][NextClock]_vars

\* one call whose tools may raise
MaxFailBudget == 3

InitFail ==
    /\ scn = "fail"
    /\ script = <<>>
    /\ \E cat \in Catalogs : tools = [a \in Agents |-> cat]
    /\ agent_max_loops = [a \in Agents |-> MaxFailBudget]
    /\ agent = [r \in Runs |-> 1]
    /\ \E m \in {"run", "run_async"} : mode = [r \in Runs |-> m]
    /\ question = [r \in Runs |-> <<"q">>]
    /\ \E b \in Budgets : max_iterations = [r \in Runs |-> b]
    /\ InitLocals({1})

SpecFail == InitFail /\ [][Next]_vars

-----------------------------------------------------------------------------
(* Agent.run of the copy src/llm_agents/agent.py, lines 56-78. Its properties,
   decide_next_action and _parse are those of the other copy, line for line. *)

\* what a Python function returns when it ends without a return statement
PyNone == <<"<None>">>

\* lines 67-70, and the end of the function when the loop ends
OldRun_LoopHead(r, n, prevs, pr) ==
    IF while_cond(n, agent_max_loops[agent[r]])
    THEN LET curr_prompt == with_previous_responses(pr, join(<<"\n">>, prevs))
         IN  /\ num_loops' = Set(num_loops, r, n + 1)
             /\ IF curr_prompt.raised
                THEN /\ pc' = Set(pc, r, "raised")
                     /\ result' = Set(result, r, Raised(curr_prompt.exc, <<>>))
                     /\ calls' = calls
                ELSE /\ pc' = Set(pc, r, "llm")
                     /\ result' = result
                     /\ calls' = Set(calls, r,
                           Append(calls[r], generate(curr_prompt.value, stop_pattern)))
    ELSE /\ num_loops' = Set(num_loops, r, n)
         /\ pc' = Set(pc, r, "returned")
         /\ result' = Set(result, r, Returned(PyNone))
         /\ calls' = calls

\* lines 56-70: the call up to its first model call
OldRun_Begin(r) ==
    /\ pc[r] = "idle"
    /\ mode[r] = "old_run"
    /\ ~Blocked(r)
    /\ LET p1 == first_prompt(tools[agent[r]], question[r])
           shown == with_previous_responses(p1.value, <<>>)
       IN  /\ previous_responses' = Set(previous_responses, r, <<>>)
           /\ prompt' = Set(prompt, r, p1.value)
           /\ IF shown.raised
              THEN /\ pc' = Set(pc, r, "raised")
                   /\ result' = Set(result, r, Raised(shown.exc, <<>>))
                   /\ num_loops' = Set(num_loops, r, 0)
                   /\ calls' = calls
              ELSE OldRun_LoopHead(r, 0, <<>>, p1.value)
    /\ UNCHANGED <<config, outside, script, thinking, max_loops, cur, own>>

\* lines 70-75: the model has replied; answer, fail or call the tool
OldRun_Generated(r) ==
    /\ pc[r] = "llm"
    /\ mode[r] = "old_run"
    /\ ~Blocked(r)
    /\ \E generated \in LlmReplies(r) :
          LET parsed == decide_next_action(generated)
          IN  /\ script' = Scripted(r, generated)
              /\ cur' = Set(cur, r, [cur[r] EXCEPT !.generated = generated,
                                                   !.tool = parsed.tool,
                                                   !.tool_input = parsed.tool_input])
              /\ IF parsed.raised
                 THEN /\ pc' = Set(pc, r, "raised")
                      /\ result' = Set(result, r, Raised("ValueError", parsed.message))
                      /\ calls' = calls
                 ELSE IF is_final_answer(parsed.tool)
                 THEN /\ pc' = Set(pc, r, "returned")
                      /\ result' = Set(result, r, Returned(parsed.tool_input))
                      /\ calls' = calls
                 ELSE IF is_unknown_tool(parsed.tool, tools[agent[r]])
                 THEN /\ pc' = Set(pc, r, "raised")
                      /\ result' = Set(result, r,
                            Raised("ValueError", UnknownToolMessage(parsed.tool)))
                      /\ calls' = calls
                 ELSE /\ pc' = Set(pc, r, "tool")
                      /\ result' = result
                      /\ calls' = Set(calls, r, Append(calls[r],
                            use(tool_by_names(tools[agent[r]])[parsed.tool],
                                parsed.tool_input)))
    /\ UNCHANGED <<config, outside, thinking, max_loops, num_loops, prompt,
                   previous_responses, own>>

\* lines 75-78, then the loop head again: the tool has returned
OldRun_ToolReturned(r) ==
    /\ pc[r] = "tool"
    /\ mode[r] = "old_run"
    /\ ~Blocked(r)
    /\ \E tool_result \in ToolReplies(r) :
          LET generated == WithObservation(cur[r].generated, tool_result)
              prevs == Append(previous_responses[r], generated)
          IN  /\ script' = Scripted(r, tool_result)
              /\ IF tool_raises(tool_result)
                 THEN /\ pc' = Set(pc, r, "raised")
                      /\ result' = Set(result, r, Raised("ToolError", tool_result))
                      /\ UNCHANGED <<cur, previous_responses, num_loops, calls>>
                 ELSE /\ cur' = Set(cur, r, [cur[r] EXCEPT !.generated = generated])
                      /\ previous_responses' = Set(previous_responses, r, prevs)
                      /\ OldRun_LoopHead(r, num_loops[r], prevs, prompt[r])
    /\ UNCHANGED <<config, outside, thinking, max_loops, prompt, own>>

\* the same call made on an Agent of each copy, built alike, the model and the
\* tools replying the same to both
MaxCopiesBudget == 2

InitCopies ==
    /\ scn = "copies"
    /\ script = <<>>
    /\ \E cat \in Catalogs : tools = [a \in Agents |-> cat]
    /\ \E n \in 0..MaxCopiesBudget : agent_max_loops = [a \in Agents |-> n]
    /\ agent = [r \in Runs |-> r]
    /\ mode = [r \in Runs |-> IF r = 1 THEN "run" ELSE "old_run"]
    /\ \E q \in Questions : question = [r \in Runs |-> q]
    /\ max_iterations = [r \in Runs |-> NoneGiven]
    /\ InitLocals(Runs)

NextCopies ==
    \E r \in Runs :
        \/ Run_Begin(r)
        \/ Run_Generated(r)
        \/ Run_ToolReturned(r)
        \/ OldRun_Begin(r)
        \/ OldRun_Generated(r)
        \/ OldRun_ToolReturned(r)

SpecCopies == InitCopies /\ [][NextCopies]_vars

-----------------------------------------------------------------------------
(* PythonREPL.run, python_repl.py lines 18-29, entered by threads through
   run_async (asyncio.to_thread, lines 31-33) *)

loop_state == <<config, script, thinking, pc, max_loops, num_loops, prompt,
                previous_responses, cur, result, calls, own, today>>

\* line 20: old_stdout = sys.stdout
PythonREPL_run_save(t) ==
    /\ repl_pc[t] = "ready"
    /\ old_stdout' = [old_stdout EXCEPT ![t] = sys_stdout]
    /\ repl_pc' = [repl_pc EXCEPT ![t] = "saved"]
    /\ UNCHANGED <<loop_state, sys_stdout>>

\* line 21: sys.stdout = mystdout = StringIO()
PythonREPL_run_redirect(t) ==
    /\ repl_pc[t] = "saved"
    /\ sys_stdout' = mystdout(t)
    /\ repl_pc' = [repl_pc EXCEPT ![t] = "exec"]
    /\ UNCHANGED <<loop_state, old_stdout>>

\* lines 23-25: exec returned; sys.stdout = old_stdout
PythonREPL_run_executed(t) ==
    /\ repl_pc[t] = "exec"
    /\ sys_stdout' = old_stdout[t]
    /\ repl_pc' = [repl_pc EXCEPT ![t] = "returned"]
    /\ UNCHANGED <<loop_state, old_stdout>>

\* lines 26-28: exec raised an Exception; sys.stdout = old_stdout
PythonREPL_run_except(t) ==
    /\ repl_pc[t] = "exec"
    /\ sys_stdout' = old_stdout[t]
    /\ repl_pc' = [repl_pc EXCEPT ![t] = "returned_error"]
    /\ UNCHANGED <<loop_state, old_stdout>>

\* line 23: exec raised what except Exception does not catch (SystemExit,
\* KeyboardInterrupt): run is left with no assignment to sys.stdout
PythonREPL_run_exits(t) ==
    /\ repl_pc[t] = "exec"
    /\ repl_pc' = [repl_pc EXCEPT ![t] = "raised"]
    /\ UNCHANGED <<loop_state, sys_stdout, old_stdout>>

InitRepl ==
    /\ scn = "repl"
    /\ script = <<>>
    /\ tools = [a \in Agents |-> <<ToolA>>]
    /\ agent_max_loops = [a \in Agents |-> 0]
    /\ agent = [r \in Runs |-> 1]
    /\ mode = [r \in Runs |-> "run_async"]
    /\ question = [r \in Runs |-> <<"q">>]
    /\ max_iterations = [r \in Runs |-> NoneGiven]
    /\ InitLocals({})

NextRepl ==
    \E t \in Threads :
        \/ PythonREPL_run_save(t)
        \/ PythonREPL_run_redirect(t)
        \/ PythonREPL_run_executed(t)
        \/ PythonREPL_run_except(t)
        \/ PythonREPL_run_exits(t)

SpecRepl == InitRepl /\ [][NextRepl]_vars

-----------------------------------------------------------------------------
(* Properties *)

Started(r) == pc[r] \notin {"idle", "absent"}

\* the model has replied in the current iteration of call r
Replied(r) ==
    /\ pc[r] \in {"tool", "returned", "raised"}
    /\ num_loops[r] >= 1
    /\ cur[r].thinking_step.step = num_loops[r]

\* the raw model output of the current iteration
Raw(r) == cur[r].thinking_step.thought

NumCalls(r, op) == Cardinality({k \in 1..Len(calls[r]) : calls[r][k].op = op})

\* the last call issued by r is the model call of the current iteration
LastCallIsModelCall(r) ==
    /\ calls[r] # <<>>
    /\ Last(calls[r]).op = "create"
    /\ NumCalls(r, "create") = num_loops[r]

\* t from its first to its last character that is not in cs
Stripped(t, cs) ==
    LET keep == {k \in 1..Len(t) : t[k] \notin cs}
    IN  IF keep = {} THEN <<>> ELSE SubSeq(t, Min(keep), Max(keep))

\* u is t without the characters of cs at its two ends
IsStripOf(u, t, cs) == u = Stripped(t, cs)

Occurrences(s, p) == {i \in 1..Len(s) : StartsAt(s, p, i)}

\* s has marker, then any text, then Action Input:
HasPattern(s, marker) ==
    \E i \in Occurrences(s, marker) :
        \E j \in Occurrences(s, ActionInputLiteral) : j >= i + Len(marker)

\* C1: once a model output holds the Final Answer marker, the call has returned
\* the text after it, and its last call is that model call: no model call and no
\* tool call follows, whatever budget remains.
C1_FinalAnswerStops ==
    \A r \in Runs :
        (Replied(r) /\ contains(Raw(r), FINAL_ANSWER_TOKEN)) =>
            /\ pc[r] = "returned"
            /\ result[r] = Returned(FinalAnswerText(Raw(r)))
            /\ LastCallIsModelCall(r)

C1_Witness ==
    \E r \in Runs :
        /\ pc[r] = "returned"
        /\ contains(Raw(r), FINAL_ANSWER_TOKEN)
        /\ num_loops[r] >= 2
        /\ num_loops[r] < max_loops[r]

\* C2: a call whose budget of n >= 0 iterations is used up by n tool steps, and
\* that has not failed, has returned the fixed fallback text.
C2_ExhaustedReturnsFallback ==
    \A r \in Runs :
        (Started(r) /\ Len(previous_responses[r]) = max_loops[r] /\ pc[r] # "raised") =>
            /\ pc[r] = "returned"
            /\ result[r] = Returned(FallbackAnswer)
            /\ num_loops[r] = max_loops[r]

C2_Witness ==
    \E r \in Runs :
        /\ pc[r] = "returned"
        /\ result[r] = Returned(FallbackAnswer)
        /\ max_loops[r] >= 2
        /\ Len(previous_responses[r]) = max_loops[r]

\* C3: every call ends (returned or raised); it never runs more than max_loops
\* iterations; an iteration that ends with a tool step adds one to the count of
\* steps taken and each new model call adds one to num_loops; a call that has
\* ended takes no further step.
C3_Terminates ==
    /\ <>(\A r \in Runs : pc[r] \in Terminal \cup {"absent"})
    /\ [](\A r \in Runs : num_loops[r] <= max_loops[r])
    /\ [][\A r \in Runs :
            /\ (pc[r] = "tool" /\ pc'[r] # "tool") =>
                   Len(previous_responses'[r]) = Len(previous_responses[r]) + 1
            /\ (pc[r] # "tool" \/ pc'[r] = "tool") =>
                   Len(previous_responses'[r]) = Len(previous_responses[r])
            /\ (pc'[r] = "llm" /\ (pc[r] # "llm" \/ num_loops'[r] # num_loops[r])) =>
                   num_loops'[r] = num_loops[r] + 1
            /\ pc[r] \in Terminal =>
                   /\ pc'[r] = pc[r]
                   /\ result'[r] = result[r]
                   /\ calls'[r] = calls[r]
                   /\ num_loops'[r] = num_loops[r]]_vars

C3_Witness ==
    \E r \in Runs :
        /\ pc[r] = "returned"
        /\ num_loops[r] = max_loops[r]
        /\ max_loops[r] >= 2

\* C4: a parsed tool invocation (no Final Answer marker, the action pattern
\* matched) whose tool name is not in the catalog makes the call raise
\* ValueError "Unknown tool: <name>", no tool having been called in the iteration.
C4_UnknownToolRaises ==
    \A r \in Runs :
        (/\ Replied(r)
         /\ ~contains(Raw(r), FINAL_ANSWER_TOKEN)
         /\ HasPattern(Raw(r), ActionLiteral)
         /\ \A k \in 1..Len(tools[agent[r]]) : tools[agent[r]][k].name # cur[r].tool) =>
            /\ pc[r] = "raised"
            /\ result[r] = Raised("ValueError", UnknownToolMessage(cur[r].tool))
            /\ LastCallIsModelCall(r)

\* C5: a model output with neither the Final Answer marker nor the action pattern
\* makes the call raise the parse error carrying the raw output; the last call
\* is that model call.
C5_ParseFailureIsFatal ==
    \A r \in Runs :
        (/\ Replied(r)
         /\ ~contains(Raw(r), FINAL_ANSWER_TOKEN)
         /\ ~HasPattern(Raw(r), ActionLiteral)) =>
            /\ pc[r] = "raised"
            /\ result[r] = Raised("ValueError", ParseErrorMessage(Raw(r)))
            /\ LastCallIsModelCall(r)

C5_Witness ==
    \E r \in Runs :
        /\ pc[r] = "raised"
        /\ Replied(r)
        /\ num_loops[r] >= 2
        /\ num_loops[r] < max_loops[r]
        /\ ~contains(Raw(r), FINAL_ANSWER_TOKEN)
        /\ ~HasPattern(Raw(r), ActionLiteral)

\* the text after the last occurrence of the Final Answer marker
AfterLastMarker(s) ==
    SubSeq(s, Max(Occurrences(s, FINAL_ANSWER_TOKEN)) + Len(FINAL_ANSWER_TOKEN), Len(s))

\* C6: an output holding the Final Answer marker, once or more, is parsed as a
\* final answer whose text is what follows the last marker, without the
\* whitespace at its two ends.
C6_LastFinalAnswerWins ==
    \A r \in Runs :
        (Replied(r) /\ contains(Raw(r), FINAL_ANSWER_TOKEN)) =>
            /\ cur[r].tool = FinalAnswerTool
            /\ IsStripOf(cur[r].tool_input, AfterLastMarker(Raw(r)), WHITESPACE)
            /\ result[r] = Returned(cur[r].tool_input)

C6_Witness ==
    \E r \in Runs :
        /\ Replied(r)
        /\ Cardinality(Occurrences(Raw(r), FINAL_ANSWER_TOKEN)) >= 2
        /\ cur[r].tool_input # <<>>
        /\ cur[r].tool_input # AfterLastMarker(Raw(r))

\* an output the regex matches, with no Final Answer marker
Matched(r) ==
    /\ Replied(r)
    /\ ~contains(Raw(r), FINAL_ANSWER_TOKEN)
    /\ re_search(Raw(r)).matched

\* t without one leading and without one trailing double quote, if present
OneQuoteOffEachEnd(t) ==
    LET a == IF t # <<>> /\ t[1] = "\"" THEN 2 ELSE 1
        b == IF Len(t) >= a /\ t[Len(t)] = "\"" THEN Len(t) - 1 ELSE Len(t)
    IN  SubSeq(t, a, b)

\* C7 as stated: the tool name is the captured name without surrounding
\* whitespace; the tool input is the captured text without the plain spaces at
\* its ends and then without one double quote at each end, further quotes staying.
C7_OneQuoteStripped ==
    \A r \in Runs :
        Matched(r) =>
            /\ IsStripOf(cur[r].tool, re_search(Raw(r)).group1, WHITESPACE)
            /\ cur[r].tool_input =
                  OneQuoteOffEachEnd(Stripped(re_search(Raw(r)).group2, {" "}))

\* C7 amended: the tool name is the captured name without surrounding
\* whitespace; the tool input is the captured text without the plain spaces at
\* its ends and then without every double quote at its ends, balanced or not;
\* quotes and spaces further inside stay.
C7_AllQuotesStripped ==
    \A r \in Runs :
        Matched(r) =>
            /\ IsStripOf(cur[r].tool, re_search(Raw(r)).group1, WHITESPACE)
            /\ IsStripOf(cur[r].tool_input,
                         Stripped(re_search(Raw(r)).group2, {" "}), {"\""})

C7_Witness ==
    \E r \in Runs :
        /\ Matched(r)
        /\ Len(re_search(Raw(r)).group2) >= 3
        /\ re_search(Raw(r)).group2[1] = "\""
        /\ re_search(Raw(r)).group2[2] = "\""
        /\ cur[r].tool_input # <<>>
        /\ pc[r] = "tool"

\* The ways to read marker [? name ]? newlines Action Input: at the marker at
\* index i: <<name, j>> for each name and each index j of Action Input: such that
\* only an optional closing bracket and then newlines lie between them
CapturesAt(s, marker, i) ==
    {<<SubSeq(s, w[1], w[2] - 1), w[3]>> :
        w \in {v \in (1..(Len(s) + 1)) \X (1..(Len(s) + 1))
                        \X Occurrences(s, ActionInputLiteral) :
                /\ v[1] - (i + Len(marker)) \in {0, 1}
                /\ v[1] = i + Len(marker) + 1 => s[i + Len(marker)] = "["
                /\ v[2] >= v[1]
                /\ v[3] >= v[2]
                /\ \E c \in {0, 1} :
                      /\ c = 1 => s[v[2]] = "]"
                      /\ v[2] + c <= v[3]
                      /\ \A n \in (v[2] + c)..(v[3] - 1) : s[n] = "\n"}}

\* the text from the first character after Action Input: at j that is no whitespace
TextAfter(s, j) ==
    SubSeq(s, Min({n \in (j + Len(ActionInputLiteral))..(Len(s) + 1) :
                      n = Len(s) + 1 \/ s[n] \notin WHITESPACE}), Len(s))

\* the capture with the shortest name
ShortestCapture(s, marker) ==
    LET cs == CapturesAt(s, marker, Min(Occurrences(s, marker)))
    IN  CHOOSE c \in cs : \A d \in cs : Len(c[1]) <= Len(d[1])

\* what parsing is said to give for an output with the pattern begun by marker
ParsesAsInvocation(r, marker) ==
    /\ result[r].value # ParseErrorMessage(Raw(r))
    /\ cur[r].tool = ToolNameText(ShortestCapture(Raw(r), marker)[1])
    /\ cur[r].tool_input =
          ToolInputText(TextAfter(Raw(r), ShortestCapture(Raw(r), marker)[2]))

\* C8 as stated: an output without the Final Answer marker that holds Action:
\* (no space asked for), an optional bracket, a name, an optional bracket,
\* newlines, Action Input:, whitespace and text parses as a tool invocation, the
\* name being the shortest one from the first marker and the input all the rest.
C8_ActionMarkerWithoutSpace ==
    \A r \in Runs :
        (/\ Replied(r)
         /\ ~contains(Raw(r), FINAL_ANSWER_TOKEN)
         /\ HasPattern(Raw(r), ActionNoSpace)) =>
            ParsesAsInvocation(r, ActionNoSpace)

\* C8 amended: the same with the marker being Action: followed by one space.
C8_ActionPatternParses ==
    \A r \in Runs :
        (/\ Replied(r)
         /\ ~contains(Raw(r), FINAL_ANSWER_TOKEN)
         /\ HasPattern(Raw(r), ActionLiteral)) =>
            ParsesAsInvocation(r, ActionLiteral)

C8_Witness ==
    \E r \in Runs :
        /\ Matched(r)
        /\ Cardinality(Occurrences(Raw(r), ActionInputLiteral)) >= 2
        /\ Cardinality(Occurrences(Raw(r), ActionLiteral)) >= 2
        /\ contains(cur[r].tool_input, ActionInputLiteral)
        /\ cur[r].tool = <<"a">>

IsPrefix(s, t) == Len(s) <= Len(t) /\ s = SubSeq(t, 1, Len(s))

\* C9: run and run_async, given the same arguments and the same replies, issue
\* the same calls in the same order, and end with the same result and the same
\* steps in Agent.thinking.
C9_RunAndRunAsyncAgree ==
    /\ IsPrefix(calls[1], calls[2]) \/ IsPrefix(calls[2], calls[1])
    /\ (pc[1] \in Terminal /\ pc[2] \in Terminal) =>
          /\ pc[1] = pc[2]
          /\ calls[1] = calls[2]
          /\ result[1] = result[2]
          /\ thinking[agent[1]] = thinking[agent[2]]

C9_Witness ==
    /\ pc[1] = "returned"
    /\ pc[2] = "returned"
    /\ Len(calls[2]) >= 4
    /\ Len(thinking[agent[2]]) >= 3
    /\ result[2].value # FallbackAnswer

\* C10: when a call returns, Agent.thinking holds exactly the steps that call
\* appended, in order.
C10_TraceIsOwn ==
    [][\A r \in Runs :
          (pc[r] \notin Terminal /\ pc'[r] = "returned") =>
              thinking'[agent[r]] = own'[r]]_vars

\* the output of the current iteration parsed into a decision
Parsed(r) ==
    /\ Replied(r)
    /\ contains(Raw(r), FINAL_ANSWER_TOKEN) \/ HasPattern(Raw(r), ActionLiteral)

\* the Trace of the Agent the call r runs on
Trace(r) == thinking[agent[r]]

\* C11: every iteration whose output parsed has appended exactly one step to the
\* Trace, whatever the branch: while the model is awaited the Trace holds one
\* step per earlier iteration, and a call that ended in an iteration whose
\* output parsed (final answer, tool invoked, tool not found) holds one step per
\* iteration, the last one with that raw output.
C11_StepPerParsedIteration ==
    \A r \in Runs :
        /\ pc[r] = "llm" => Len(Trace(r)) = num_loops[r] - 1
        /\ (pc[r] \in Terminal /\ Parsed(r)) =>
              /\ Len(Trace(r)) = num_loops[r]
              /\ Last(Trace(r)).thought = Raw(r)

\* the call ended on a final answer (the tool name of its last iteration)
Answered(r) == pc[r] = "returned" /\ Replied(r) /\ cur[r].tool = FinalAnswerTool

\* C12: when a call has returned, the Trace holds one step per iteration run,
\* numbered 1, 2, ...: a call answered in iteration k has k steps, the last one
\* carrying the answer; a call that used up its budget n has n steps (one step
\* for a budget of 1), each with its observation, and returned the fallback.
C12_OneStepPerIteration ==
    \A r \in Runs :
        pc[r] = "returned" =>
            /\ Len(Trace(r)) = num_loops[r]
            /\ \A k \in 1..Len(Trace(r)) : Trace(r)[k].step = k
            /\ Answered(r) =>
                  /\ Last(Trace(r)).result = result[r].value
                  /\ Last(Trace(r)).observation = Absent
            /\ ~Answered(r) =>
                  /\ Len(Trace(r)) = max_loops[r]
                  /\ result[r] = Returned(FallbackAnswer)
                  /\ \A k \in 1..Len(Trace(r)) : Trace(r)[k].observation # Absent

C12_Witness ==
    \E r \in Runs :
        /\ Answered(r)
        /\ Len(Trace(r)) >= 2
        /\ Len(Trace(r)) < max_loops[r]

\* what the Transcript is to hold for a step: the raw output, a newline,
\* Observation: and a space, the tool result, a newline, Thought:
Entry(step) ==
    step.thought
        \o <<"\n", "O","b","s","e","r","v","a","t","i","o","n",":", " ">>
        \o step.observation
        \o <<"\n", "T","h","o","u","g","h","t",":">>

\* C13: each Transcript entry is the raw output and the tool result of its step
\* in the Observation / Thought frame; the prompt sent to the model holds every
\* entry verbatim, braces in outputs and results included; and rendering the
\* prompt with the entries does not fail.
C13_TranscriptRoundTrip ==
    \A r \in Runs :
        /\ \A k \in 1..Len(previous_responses[r]) :
              previous_responses[r][k] = Entry(Trace(r)[k])
        /\ pc[r] = "llm" =>
              \A k \in 1..Len(previous_responses[r]) :
                  contains(Last(calls[r]).arg, previous_responses[r][k])
        /\ (pc[r] = "raised" /\ previous_responses[r] # <<>>) => Replied(r)

C13_Witness ==
    \E r \in Runs :
        /\ pc[r] = "llm"
        /\ Len(previous_responses[r]) >= 2
        /\ \E k \in 1..Len(previous_responses[r]) :
              /\ contains(Trace(r)[k].thought, <<"{">>)
              /\ contains(Trace(r)[k].observation, <<"{">>)

\* the prompt of the first model call of r
FirstPrompt(r) == calls[r][1].arg

\* the catalog the call r sees
Catalog(r) == tools[agent[r]]

\* every position of x in the prompt lies before every position of y
AllBefore(p, x, y) ==
    \A i \in Occurrences(p, x) : \A j \in Occurrences(p, y) : i < j

QuestionAndTranscript(r) ==
    question[r] \o <<"\n", "Thought: ">>
        \o join(<<"\n">>, previous_responses[r]) \o <<"\n">>

\* C15: for every question, rendering the prompt never fails (a call raises only
\* on the reply of an iteration), and the prompt sent to the model holds, right
\* after the text ending in Question: , the question character for character,
\* then the Thought: marker and the transcript.
C15_QuestionLiteral ==
    \A r \in Runs :
        /\ pc[r] = "raised" => Replied(r)
        /\ pc[r] = "llm" =>
              \E i \in Occurrences(Last(calls[r]).arg, QuestionAndTranscript(r)) :
                  /\ i > 1
                  /\ Last(calls[r]).arg[i - 1] = PROMPT_TEMPLATE[13]
                  /\ i + Len(QuestionAndTranscript(r)) = Len(Last(calls[r]).arg) + 1

\* C16: on an Agent built with defaults (max_loops 15), a call without
\* max_iterations has a budget of 15: it makes at most 15 iterations and model
\* calls, and after 15 tool steps it has returned the fallback; a call with
\* max_iterations = n (0 included) has the budget n, and Agent.max_loops stays 15.
C16_DefaultBudget ==
    \A r \in Runs :
        Started(r) =>
            /\ agent_max_loops[agent[r]] = 15
            /\ ~max_iterations[r].given =>
                  /\ max_loops[r] = 15
                  /\ num_loops[r] <= 15
                  /\ NumCalls(r, "create") <= 15
                  /\ Len(previous_responses[r]) = 15 =>
                        /\ pc[r] = "returned"
                        /\ result[r] = Returned(FallbackAnswer)
            /\ max_iterations[r].given =>
                  /\ max_loops[r] = max_iterations[r].n
                  /\ num_loops[r] <= max_iterations[r].n
                  /\ NumCalls(r, "create") <= max_iterations[r].n

C16_Witness ==
    \E r \in Runs :
        /\ ~max_iterations[r].given
        /\ pc[r] = "returned"
        /\ num_loops[r] = 15
        /\ result[r] = Returned(FallbackAnswer)

\* C17: no retries. The calls of a run alternate, a model call first and then
\* the tool call of the same iteration, so an iteration has at most one model
\* call and at most one tool call; the model calls are as many as the iterations
\* begun and never more than the budget; the tool calls never more than the
\* model calls.
C17_NoRetries ==
    \A r \in Runs :
        /\ \A k \in 1..Len(calls[r]) :
              calls[r][k].op = IF k % 2 = 1 THEN "create" ELSE "use"
        /\ NumCalls(r, "create") = num_loops[r]
        /\ NumCalls(r, "create") <= max_loops[r]
        /\ NumCalls(r, "use") <= NumCalls(r, "create")

C17_Witness ==
    \E r \in Runs :
        /\ pc[r] = "raised"
        /\ NumCalls(r, "create") = max_loops[r]
        /\ NumCalls(r, "use") = max_loops[r] - 1
        /\ max_loops[r] >= 2

\* C18: when a call has raised on the reply of iteration k (parse failure or
\* unknown tool), Agent.thinking holds the steps of iterations 1..k-1, as the
\* call appended them, numbered in order and each with its observation.
C18_PartialTraceKept ==
    \A r \in Runs :
        (pc[r] = "raised" /\ Replied(r)) =>
            /\ Len(Trace(r)) = num_loops[r] - 1
            /\ Trace(r) = own[r]
            /\ \A k \in 1..Len(Trace(r)) :
                  /\ Trace(r)[k].step = k
                  /\ Trace(r)[k].observation # Absent

C18_Witness ==
    \E r \in Runs :
        /\ pc[r] = "raised"
        /\ Replied(r)
        /\ Len(Trace(r)) >= 2
        /\ \A k \in 1..Len(Catalog(r)) : Catalog(r)[k].name # cur[r].tool
        /\ cur[r].tool # <<>>

\* r is the call made last
MostRecent(r) == Started(r) /\ \A q \in Runs : q > r => ~Started(q)

EndsWith(s, t) == Len(t) <= Len(s) /\ SubSeq(s, Len(s) - Len(t) + 1, Len(s)) = t

\* C19: with calls made one after another on one Agent, Agent.thinking holds
\* only the steps of the call made last, and the first prompt of every call ends
\* with the question, the Thought: marker and an empty transcript.
C19_FreshPerRun ==
    \A r \in Runs :
        /\ MostRecent(r) => Trace(r) = own[r]
        /\ calls[r] # <<>> =>
              EndsWith(FirstPrompt(r), question[r] \o <<"\n", "Thought: ", "\n">>)

C19_Witness ==
    /\ pc[1] \in Terminal
    /\ Len(own[1]) >= 2
    /\ mode[1] # mode[2]
    /\ pc[2] = "returned"
    /\ Len(own[2]) = 1
    /\ Trace(2) = own[2]

\* the entries of the first n steps of the Trace, in order, a newline between two
TranscriptOf(r, n) ==
    Concat([k \in 1..(2 * n - 1) |->
               IF k % 2 = 1 THEN Entry(Trace(r)[(k + 1) \div 2]) ELSE <<"\n">>])

\* C20: iterations are strictly sequential. While a tool call is pending no
\* further model call has been issued; a model call of an iteration after the
\* first is issued by the step in which the tool call of the iteration before
\* returns; the prompt of the model call of iteration j ends with the Thought:
\* marker and exactly the j - 1 entries of the iterations before, in order; the
\* Transcript has one entry per finished tool step, a step that ends the call on
\* a reply adds none.
C20_StrictlySequential ==
    /\ [](\A r \in Runs :
            /\ pc[r] = "tool" =>
                  /\ Last(calls[r]).op = "use"
                  /\ NumCalls(r, "create") = num_loops[r]
            /\ \A j \in 1..NumCalls(r, "create") :
                  EndsWith(calls[r][2 * j - 1].arg,
                           <<"Thought: ">> \o TranscriptOf(r, j - 1) \o <<"\n">>)
            /\ Len(previous_responses[r]) =
                  NumCalls(r, "use") - (IF pc[r] = "tool" THEN 1 ELSE 0))
    /\ [][\A r \in Runs :
            /\ (Len(calls'[r]) > Len(calls[r]) /\ Last(calls'[r]).op = "create"
                    /\ num_loops'[r] >= 2) =>
                  /\ pc[r] = "tool"
                  /\ Last(calls[r]).op = "use"
                  /\ Len(previous_responses'[r]) = Len(previous_responses[r]) + 1
            /\ (pc[r] = "llm" /\ pc'[r] \in Terminal) =>
                  previous_responses'[r] = previous_responses[r]]_vars

C20_Witness ==
    \E r \in Runs :
        /\ pc[r] = "llm"
        /\ num_loops[r] >= 3
        /\ Len(previous_responses[r]) = 2
        /\ previous_responses[r][1] # previous_responses[r][2]

\* C21: the Trace is append-only and indexed from 1. In every state the i-th
\* step of the Trace has index i (so the indices are 1..n, no gap, no
\* duplicate); and every step of a call that has begun leaves the steps already
\* in the Trace as they are, in place, adding at most one step at the end.
C21_AppendOnly ==
    /\ [](\A r \in Runs : \A i \in 1..Len(Trace(r)) : Trace(r)[i].step = i)
    /\ [][\A r \in Runs :
            Started(r) =>
                /\ IsPrefix(Trace(r), Trace(r)')
                /\ Len(Trace(r)') <= Len(Trace(r)) + 1]_vars

C21_Witness ==
    \E r \in Runs :
        /\ pc[r] = "returned"
        /\ Answered(r)
        /\ Len(Trace(r)) >= 3

\* C22: the Final Answer marker has priority. An output that holds the marker
\* and also an Action / Action Input pair is a final answer: the call returns
\* the text after the last marker and the iteration calls no tool.
C22_FinalAnswerPriority ==
    \A r \in Runs :
        (/\ Replied(r)
         /\ contains(Raw(r), FINAL_ANSWER_TOKEN)
         /\ HasPattern(Raw(r), ActionLiteral)) =>
            /\ cur[r].tool = FinalAnswerTool
            /\ pc[r] = "returned"
            /\ result[r] = Returned(Stripped(AfterLastMarker(Raw(r)), WHITESPACE))
            /\ LastCallIsModelCall(r)
            /\ NumCalls(r, "use") = num_loops[r] - 1

C22_Witness ==
    \E r \in Runs :
        /\ Replied(r)
        /\ contains(Raw(r), FINAL_ANSWER_TOKEN)
        /\ re_search(Raw(r)).matched
        /\ \E k \in 1..Len(Catalog(r)) :
              Catalog(r)[k].name = ToolNameText(re_search(Raw(r)).group1)
        /\ pc[r] = "returned"

\* the steps of call r in which a tool was used
ToolSteps(r) == {i \in 1..Len(own[r]) : own[r][i].observation # Absent}

\* C23: dispatch by exact name. A parsed invocation whose name is, character
\* for character, the name of a catalog tool invokes that tool (the call does
\* not end with Unknown tool), once, with the parsed input; and the text the
\* tool returns is the observation of the step and of the Transcript entry.
C23_DispatchByExactName ==
    \A r \in Runs :
        /\ (pc[r] = "raised" /\ Replied(r)
              /\ result[r] = Raised("ValueError", UnknownToolMessage(cur[r].tool))) =>
                \A k \in 1..Len(Catalog(r)) : Catalog(r)[k].name # cur[r].tool
        /\ pc[r] = "tool" =>
              /\ cur[r].tool = _parse(Raw(r)).tool
              /\ cur[r].tool_input = _parse(Raw(r)).tool_input
              /\ \E k \in 1..Len(Catalog(r)) :
                    /\ Catalog(r)[k].name = cur[r].tool
                    /\ Last(calls[r]) = use(k, cur[r].tool_input)
              /\ NumCalls(r, "use") = Cardinality(ToolSteps(r)) + 1
        /\ pc[r] # "tool" => NumCalls(r, "use") = Cardinality(ToolSteps(r))
        /\ \A i \in ToolSteps(r) :
              /\ calls[r][2 * i].op = "use"
              /\ calls[r][2 * i].arg = own[r][i].tool_input
              /\ Catalog(r)[calls[r][2 * i].tool].name = own[r][i].tool
              /\ own[r][i].observation = script[2 * i]
              /\ previous_responses[r][i] =
                    script[2 * i - 1] \o <<"\n">> \o OBSERVATION_TOKEN \o <<" ">>
                        \o script[2 * i] \o <<"\n">> \o THOUGHT_TOKEN

C23_Witness ==
    \E r \in Runs :
        /\ Len(Catalog(r)) = 2
        /\ ToolSteps(r) = {1, 2}
        /\ own[r][1].tool = <<"a">>
        /\ own[r][2].tool = <<"A">>
        /\ calls[r][2].tool = 1
        /\ calls[r][4].tool = 2

\* C24: tool names are unique in the tool list of every Agent that runs, so a
\* parsed name has one candidate only and every catalog tool is the one found
\* under its name.
C24_UniqueToolNames ==
    \A r \in Runs :
        Started(r) =>
            \A k \in 1..Len(Catalog(r)) :
                /\ \A j \in 1..Len(Catalog(r)) :
                      Catalog(r)[j].name = Catalog(r)[k].name => j = k
                /\ tool_by_names(Catalog(r))[Catalog(r)[k].name] = k

\* the prompt of the first model call up to the place of the transcript
Preamble(r) == SubSeq(FirstPrompt(r), 1, Len(FirstPrompt(r)) - 1)

\* the prompt of the j-th model call of r
PromptOf(r, j) == calls[r][2 * j - 1].arg

\* C25: the prompt of every model call of a run is the text before the
\* transcript, the same at every iteration (date, tool catalog, format block,
\* question), followed by the transcript as it stood; the date in it is the
\* date on which the run began, also when the day changes during the run.
C25_PromptDependsOnTranscriptOnly ==
    /\ [](\A r \in Runs : \A j \in 1..num_loops[r] :
            /\ calls[r][2 * j - 1].op = "create"
            /\ PromptOf(r, j) =
                  Preamble(r)
                      \o join(<<"\n">>, SubSeq(previous_responses[r], 1, j - 1))
                      \o <<"\n">>)
    /\ [][\A r \in Runs :
            (pc[r] = "idle" /\ pc'[r] = "llm") =>
                /\ contains(FirstPrompt(r)', <<today>>)
                /\ EndsWith(Preamble(r)', question[r] \o <<"\n", "Thought: ">>)]_vars

C25_Witness ==
    \E r \in Runs :
        /\ num_loops[r] = 2
        /\ pc[r] = "tool"
        /\ today = Days[2]
        /\ contains(PromptOf(r, 1), <<Days[1]>>)
        /\ contains(PromptOf(r, 2), <<Days[1]>>)
        /\ PromptOf(r, 2) # PromptOf(r, 1)

\* C26: the Agent configuration is read-only during a call: no step of run or
\* run_async changes tools or max_loops of any Agent (nor which Agent, question
\* and budget the call was made with), whatever max_iterations is and however
\* the call ends; of the Agent fields only thinking changes.
C26_ConfigReadOnly ==
    [][/\ tools' = tools
       /\ agent_max_loops' = agent_max_loops
       /\ UNCHANGED <<agent, mode, question, max_iterations>>]_vars

C26_Witness ==
    \E r \in Runs :
        /\ pc[r] \in Terminal
        /\ max_iterations[r].given
        /\ max_iterations[r].n # agent_max_loops[agent[r]]
        /\ max_loops[r] = max_iterations[r].n
        /\ Trace(r) # <<>>

\* the tool call of call r, if it is the k-th reply, raised
ToolFailedAt(r, k) ==
    /\ k <= Len(script)
    /\ script[k] = ToolError
    /\ calls[r][k].op = "use"

\* C27: an error raised by a tool leaves the call as that error. It is no
\* observation of any step and stands in no Transcript entry; the iteration adds
\* no step and no entry; and the failed tool call is the last call of the run.
C27_ToolErrorPropagates ==
    \A r \in Runs :
        /\ \A i \in 1..Len(Trace(r)) : Trace(r)[i].observation # ToolError
        /\ \A i \in 1..Len(previous_responses[r]) :
              ~contains(previous_responses[r][i], ToolError)
        /\ \A k \in 1..Len(calls[r]) :
              ToolFailedAt(r, k) =>
                  /\ pc[r] = "raised"
                  /\ result[r] = Raised("ToolError", ToolError)
                  /\ k = Len(calls[r])
                  /\ Len(Trace(r)) = num_loops[r] - 1
                  /\ Len(previous_responses[r]) = num_loops[r] - 1
                  /\ NumCalls(r, "create") = num_loops[r]

C27_Witness ==
    \E r \in Runs :
        /\ ToolFailedAt(r, 4)
        /\ pc[r] = "raised"
        /\ Len(Trace(r)) = 1
        /\ max_loops[r] >= 3

\* C28: for every query that succeeded, the response reports the run: its
\* thinking field is the Trace of the run and its iterations field is the
\* number of iterations the Agent ran, the length of the Trace.
C28_FaithfulResponse ==
    \A r \in Runs :
        pc[r] = "returned" =>
            /\ response(r).result = result[r].value
            /\ response(r).thinking = Trace(r)
            /\ response(r).iterations = Len(Trace(r))
            /\ response(r).iterations = num_loops[r]

\* every call of PythonREPL.run that was started has returned its output,
\* the text printed or the text of the Exception caught
ReplQuiet == \A t \in Threads : repl_pc[t] \in {"ready", "returned", "returned_error"}

\* C29: PythonREPL.run restores the standard output of the process. Once every
\* call that was started has returned, successful or failed, run one after
\* another or at once in threads, sys.stdout is the stream it was before the
\* first call.
C29_StdoutRestored == ReplQuiet => sys_stdout = RealStdout

\* C30: the two copies of the loop agree. Given the same question, catalog and
\* max_loops and the same replies of the model and the tools, Agent.run of
\* either copy issues the same calls in the same order and ends the same way,
\* with the same value returned or the same error raised.
C30_CopiesAgree ==
    /\ IsPrefix(calls[1], calls[2]) \/ IsPrefix(calls[2], calls[1])
    /\ (pc[1] \in Terminal /\ pc[2] \in Terminal) =>
          /\ calls[1] = calls[2]
          /\ pc[1] = pc[2]
          /\ result[1] = result[2]

====
